---- MODULE Spec2Model ----
(***************************************************************************)
(* A model of db-map: the DBMap trait (db-map-trait), the in-memory engine *)
(* BTreeMapDB (db-map-btreemap) and the persistent engine LMDB             *)
(* (db-map-lmdb).  Every trait method is modelled step by step, one step   *)
(* per statement that touches shared state, so that the same steps serve   *)
(* the single-caller specification Spec, the two-thread specification      *)
(* SpecConc, the lock-step comparison of the two engines, SpecEquiv, the   *)
(* open / drop / reopen life of an LMDB environment, SpecOpen, the single *)
(* caller with callbacks that call back into the store, SpecReenter, the   *)
(* handles of two separate BTreeMapDB::open() calls, SpecTwo, and the two  *)
(* threads on a BTreeMapDB under fair scheduling, SpecLive.                *)
(*                                                                         *)
(* Keys are non-empty byte strings (the generators of db-map-test never    *)
(* produce an empty key).  The lmdb library is external: its calls are     *)
(* modelled by what the library documents (snapshot reads, one write       *)
(* transaction at a time, MDB_NOTFOUND from get and del on a missing key,  *)
(* abort when a transaction is dropped) and each of them may also fail     *)
(* with an engine error chosen by the environment.                         *)
(***************************************************************************)
EXTENDS Integers, Sequences, FiniteSets, TLC

VARIABLES
    suite,        \* the engine(s) the run exercises
    faulty,       \* whether lmdb calls may fail with an engine error
    btHandle,     \* BTreeMapDB handle -> the Arc it holds (a store) or NoStore
    btMap,        \* store -> contents of the BTreeMap<Vec<u8>, Vec<u8>>
    btLock,       \* store -> thread holding the parking_lot Mutex, or NoThread
    lmHandle,     \* LMDB handle -> the Arc<Environment>/Arc<Database> it holds
    lmCommitted,  \* environment -> committed contents of the database
    lmWriter,     \* environment -> thread owning the write transaction
    pc,           \* thread -> position in the method it runs
    call,         \* thread -> the call it runs (or ran last)
    txn,          \* thread -> its open lmdb transaction, or NoTxn
    local,        \* thread -> the method's local (prev_value / result)
    res,          \* thread -> what its last call returned
    pre,          \* thread -> contents of the store when the call was made
    before,       \* thread -> entry under the key just before its own write
                  \*           (a read on LMDB: when its transaction began)
    applied,      \* thread -> the byte strings its call has passed to F so far
    model,        \* engine -> key -> the entry the calls made so far ask for
    phase,        \* engine -> key -> summary of the write calls on the key
    lastH,        \* engine -> key -> handle of the last successful write
    conc          \* the two threads' current calls overlap in time

vars == <<suite, faulty, btHandle, btMap, btLock, lmHandle, lmCommitted,
          lmWriter, pc, call, txn, local, res, pre, before, applied, model,
          phase, lastH, conc>>

----------------------------------------------------------------------------
(* Bounds *)

\* Longest value, in bytes.
MaxValLen == 1

----------------------------------------------------------------------------
(* Data *)

BTREEMAP == "BTreeMapDB"
LMDBENG  == "LMDB"
Engines  == {BTREEMAP, LMDBENG}
BOTH     == "both"

Threads    == {"t1", "t2"}
MainThread == "t1"
PeerThread == "t2"
NoThread   == "nobody"

\* db and its clone db_clone; db2 is the handle of a second open().
Handles  == {"db", "db_clone", "db2"}
Stores   == {"s1", "s2"}
NoStore  == "unopened"

\* Keys: non-empty byte strings, one a proper prefix of the other.
Keys == {<<19>>, <<19, 87>>}
\* Values: the byte strings of 254s of length 0..MaxValLen.
Vals == {[i \in 1..n |-> 254] : n \in 0..MaxValLen}

None     == [tag |-> "None"]
Some(x)  == [tag |-> "Some", val |-> x]
Unit     == [unit |-> TRUE]
\* A result that reports "nothing there" as an error.
Ok_absent_is_error(x) ==
    IF x = [tag |-> "None"]
    THEN [ok |-> FALSE, kind |-> "DBError", cause |-> "NotFound"]
    ELSE [ok |-> TRUE, val |-> x]

Ok(x)    == [ok |-> TRUE, val |-> x]
\* Error::DBError(anyhow::Error) wrapping the lmdb error `cause`.
DBError(cause) == [ok |-> FALSE, kind |-> "DBError", cause |-> cause]
NotFound    == "NotFound"
EngineFault == "Other"
\* Error::IoError(std::io::Error)
IoError(cause) == [ok |-> FALSE, kind |-> "IoError", cause |-> cause]
\* The lmdb error for an operating-system failure on the environment's
\* files when it is opened (lmdb::Error::Other(errno): ENOENT, EACCES, ..).
OsFault     == "Other(errno)"

NoCall == [engine |-> "none", h |-> "none", op |-> "none", key |-> <<>>,
           value |-> <<>>, mapper |-> "none"]
NoRes  == [ok |-> FALSE, kind |-> "none", cause |-> "none"]
NoTxn  == [kind |-> "none"]
NoPre  == [k \in Keys |-> None]

\* A new map that already holds an (empty) entry for every key.
EmptyMap_with_entries == [k \in Keys |-> Some(<<>>)]

\* BTreeMap::new() / a newly created lmdb database: no entry for any key.
EmptyMap == [k \in Keys |-> None]

ReadOps  == {"get", "get_map"}
WriteOps == {"insert", "fetch_and_replace", "fetch_and_replace_map", "remove"}
\* The transforms a caller passes as F: the copy |k| k.to_vec() and a length.
Mappers  == {"to_vec", "len"}
\* A transform that calls back into the store before it copies the bytes:
\* |v| { let _ = handle.get(key); v.to_vec() }
REENTER  == "reenter"

----------------------------------------------------------------------------
(* Pure helpers *)

\* A copy that loses the last byte.
to_vec_drops_last(bytes) == [i \in 1..(Len(bytes) - 1) |-> bytes[i]]

\* <[u8]>::to_vec: a fresh Vec with the bytes of the slice, in order.
to_vec(bytes) == [i \in 1..Len(bytes) |-> bytes[i]]

\* The transform F applied to the borrowed view `bytes`.
ApplyMapper(f, bytes) ==
    IF f = "len" THEN [len |-> Len(bytes)] ELSE [vec |-> to_vec(bytes)]

\* DBMap::get and DBMap::fetch_and_replace are the _map methods with
\* |k| k.to_vec() as the transform.
EffMapper(c) ==
    IF c.op \in {"get", "fetch_and_replace"} THEN "to_vec" ELSE c.mapper

\* BTreeMap::get
BTreeMap_get(m, k) == m[k]

\* A BTreeMap::insert that hands back the value it has just stored.
BTreeMap_insert_returns_new(m, k, v) ==
    [map |-> [m EXCEPT ![k] = Some(v)], prev |-> Some(v)]

\* BTreeMap::insert: stores v under k and returns the value it replaces.
BTreeMap_insert(m, k, v) == [map |-> [m EXCEPT ![k] = Some(v)], prev |-> m[k]]

\* A remove that drops every entry whose key starts with k.
BTreeMap_remove_by_prefix(m, k) ==
    [j \in DOMAIN m |->
        IF Len(j) >= Len(k) /\ SubSeq(j, 1, Len(k)) = k THEN None ELSE m[j]]

\* A BTreeMap::remove that leaves the entry in place.
BTreeMap_remove_keeps(m, k) == m

\* BTreeMap::remove: drops the entry of k, if there is one.
BTreeMap_remove(m, k) == [m EXCEPT ![k] = None]

\* A Transaction::get that reports a missing key as an empty value.
Txn_get_absent_is_empty(view, k) ==
    IF view[k] = None THEN Ok(<<>>) ELSE Ok(view[k].val)

\* A Transaction::get whose slice is one byte too long.
Txn_get_padded(view, k) ==
    IF view[k] = None THEN DBError(NotFound) ELSE Ok(Append(view[k].val, 0))

\* Transaction::get: the entry of k in the transaction's view, NotFound
\* when there is none.
Txn_get(view, k) ==
    IF view[k] = None THEN DBError(NotFound) ELSE Ok(view[k].val)

\* A put that keeps an existing entry (as with WriteFlags::NO_OVERWRITE).
Txn_put_no_overwrite(view, k, v) ==
    IF view[k] = None THEN [view EXCEPT ![k] = Some(v)] ELSE view

\* RwTransaction::put with WriteFlags::empty(): stores v under k in the
\* transaction's view, overwriting.
Txn_put(view, k, v) == [view EXCEPT ![k] = Some(v)]

\* RwTransaction::del(db, key, None): deletes the entry of k in the
\* transaction's view; MDB_NOTFOUND when k has no entry.
Txn_del(view, k) ==
    IF view[k] = None
    THEN [r |-> DBError(NotFound), view |-> view]
    ELSE [r |-> Ok(Unit), view |-> [view EXCEPT ![k] = None]]

\* RwTransaction::commit: the transaction's view becomes the committed state.
Txn_commit(committed, view) == view

\* A drop that publishes the view of the transaction.
Txn_abort_publishes(committed, view) == view

\* Drop of a transaction that was not committed (mdb_txn_abort): the view is
\* discarded, the committed state stays.
Txn_abort(committed, view) == committed

\* Environment::begin_ro_txn / begin_rw_txn: the transaction sees the state
\* committed when it begins.
Txn_snapshot(committed) == committed

\* A transaction that reads whatever is committed at the moment of the read.
Txn_view_reads_committed(view, committed) == committed

\* What a transaction reads from: the pages of its own snapshot (and its
\* own writes), whatever other transactions have committed since it began.
Txn_view(view, committed) == view

\* A conversion that makes an I/O error of every failure.
From_anyhow_as_io(cause) == IoError(cause)

\* `?` on the anyhow::Result of open_inner: Error::DBError(#[from]
\* anyhow::Error), whatever lmdb error the anyhow::Error wraps.
From_anyhow(cause) == DBError(cause)

\* An open that starts the environment's data file afresh.
Environment_open_truncates(committed) == EmptyMap

\* EnvironmentBuilder::open on a directory: the data file is created empty
\* when there is none and is mapped as it is when there is one.
Environment_open(committed) == committed

\* A begin_rw_txn that never waits.
WriterFree_never_waits(owner) == TRUE

\* begin_rw_txn waits while another write transaction is open.
WriterFree(owner) == owner = NoThread

\* A lock that never waits.
MutexFree_never_waits(owner) == TRUE

\* Mutex::lock waits while the mutex is held.
MutexFree(owner) == owner = NoThread

\* A clone that copies the map into a store of its own.
BTreeMapDB_clone_deep(handles, maps, h, hNew) ==
    [handles |-> [handles EXCEPT ![hNew] = "s2"],
     maps |-> [maps EXCEPT !["s2"] = maps[handles[h]]]]

\* #[derive(Clone)] on BTreeMapDB(Arc<..>): the new handle holds the same Arc.
BTreeMapDB_clone(handles, maps, h, hNew) ==
    [handles |-> [handles EXCEPT ![hNew] = handles[h]], maps |-> maps]

\* An open that hands out the store of the first handle again.
BTreeMapDB_open_shared(handles, maps, h) ==
    [handles |-> [handles EXCEPT ![h] = handles["db"]], maps |-> maps]

\* BTreeMapDB::open(): Self::default(), a new Arc around a new, empty
\* BTreeMap that no existing handle refers to.
BTreeMapDB_open(handles, maps, h) ==
    LET s == CHOOSE x \in DOMAIN maps : \A g \in DOMAIN handles : handles[g] # x
    IN  [handles |-> [handles EXCEPT ![h] = s],
         maps |-> [maps EXCEPT ![s] = EmptyMap]]

\* #[derive(Clone)] on LMDB { env: Arc<..>, db: Arc<..> }: same environment.
LMDB_clone(handles, envs, h, hNew) ==
    [handles |-> [handles EXCEPT ![hNew] = handles[h]], envs |-> envs]

----------------------------------------------------------------------------
(* State access *)

StoreOf(e, h) == IF e = BTREEMAP THEN btHandle[h] ELSE lmHandle[h]

\* The contents a caller of engine e, handle h can observe.
Contents(e, h) ==
    IF e = BTREEMAP THEN btMap[btHandle[h]] ELSE lmCommitted[lmHandle[h]]

Active(e) == suite = e \/ suite = BOTH

FirstPc(e) == IF e = BTREEMAP THEN "lock" ELSE "begin"

\* Whether the environment fails the lmdb call that is about to run.
FaultChoice == IF faulty THEN BOOLEAN ELSE {FALSE}

\* The arguments of the methods: the copy operations take no transform,
\* the methods without a value take none.
MapperArgs(op) ==
    IF op \in {"get_map", "fetch_and_replace_map"} THEN Mappers ELSE {"none"}

ValueArgs(op) == IF op \in {"get", "get_map", "remove"} THEN {<<>>} ELSE Vals

----------------------------------------------------------------------------
(* What the calls made so far ask for.  These variables are kept from the    *)
(* arguments and results of the calls alone, never from the engines' state. *)

\* The entry of a key after a call: a write that returned Ok stores its
\* value (remove: no entry); any other call leaves the entry as it was.
ModelAfter(m, c, r) ==
    IF c.op \in WriteOps /\ r.ok
    THEN IF c.op = "remove" THEN None ELSE Some(c.value)
    ELSE m

IsReplace(op) == op \in {"fetch_and_replace", "fetch_and_replace_map"}

\* The write calls a key has seen, summarised:
\*   fresh            none yet
\*   unput            only removes, whatever they returned
\*   repl1, repl2     only replaces that returned Ok: one, two or more
\*   put1, put2       the latest are inserts that returned Ok: one, two or more
\*   del_put1/2       a remove that returned Ok, right after put1 / put2
\*   other            anything else
PhaseAfter(p, c, r) ==
    IF c.op \notin WriteOps THEN p
    ELSE IF c.op = "remove" /\ p \in {"fresh", "unput"} THEN "unput"
    ELSE IF ~r.ok THEN "other"
    ELSE IF c.op = "insert"
         THEN IF p \in {"put1", "put2"} THEN "put2" ELSE "put1"
    ELSE IF c.op = "remove"
         THEN IF p = "put1" THEN "del_put1"
              ELSE IF p = "put2" THEN "del_put2" ELSE "other"
    ELSE IF p = "fresh" THEN "repl1"
         ELSE IF p \in {"repl1", "repl2"} THEN "repl2" ELSE "other"

----------------------------------------------------------------------------
(* Initial state: `let db = BTreeMapDB::open()` / `LMDB::open(fresh dir)` *)

Unset == [tag |-> "unset"]

InitCommon ==
    /\ btHandle = [h \in Handles |-> IF h = "db" THEN "s1" ELSE NoStore]
    /\ btMap = [s \in Stores |-> EmptyMap]
    /\ btLock = [s \in Stores |-> NoThread]
    /\ lmHandle = [h \in Handles |-> IF h = "db" THEN "s1" ELSE NoStore]
    /\ lmCommitted = [s \in Stores |-> EmptyMap]
    /\ lmWriter = [s \in Stores |-> NoThread]
    /\ pc = [t \in Threads |-> "idle"]
    /\ call = [t \in Threads |-> NoCall]
    /\ txn = [t \in Threads |-> NoTxn]
    /\ local = [t \in Threads |-> None]
    /\ res = [t \in Threads |-> NoRes]
    /\ pre = [t \in Threads |-> NoPre]
    /\ before = [t \in Threads |-> Unset]
    /\ applied = [t \in Threads |-> <<>>]
    /\ model = [e \in Engines |-> [k \in Keys |-> None]]
    /\ phase = [e \in Engines |-> [k \in Keys |-> "fresh"]]
    /\ lastH = [e \in Engines |-> [k \in Keys |-> "none"]]
    /\ conc = FALSE

Init == suite \in Engines /\ faulty = TRUE /\ InitCommon

----------------------------------------------------------------------------
(* Bookkeeping shared by the steps *)

hvars  == <<btHandle, lmHandle>>
btvars == <<btMap, btLock>>
lmvars == <<lmCommitted, lmWriter>>
gvars  == <<model, phase, lastH>>
envvars == <<suite, faulty>>

\* The method moves on to position p with its local set to l.
Continue(t, p, l) ==
    /\ pc' = [pc EXCEPT ![t] = p]
    /\ local' = [local EXCEPT ![t] = l]
    /\ UNCHANGED res

\* The method returns r to its caller.
Finish(t, r) ==
    /\ pc' = [pc EXCEPT ![t] = "done"]
    /\ local' = [local EXCEPT ![t] = None]
    /\ res' = [res EXCEPT ![t] = r]

Callable(c) ==
    /\ Active(c.engine)
    /\ StoreOf(c.engine, c.h) # NoStore

Busy(t) == pc[t] \notin {"idle", "done"}

\* One caller (the conformance suite's test body) starts a call on the
\* engine under test.
InvokeMain ==
    \E h \in Handles, op \in ReadOps \cup WriteOps, k \in Keys :
    \E v \in ValueArgs(op), f \in MapperArgs(op) :
        LET c == [engine |-> suite, h |-> h, op |-> op, key |-> k,
                  value |-> v, mapper |-> f] IN
        /\ pc[MainThread] = "idle"
        /\ Callable(c)
        /\ pc' = [pc EXCEPT ![MainThread] = FirstPc(c.engine)]
        /\ call' = [call EXCEPT ![MainThread] = c]
        /\ pre' = [pre EXCEPT ![MainThread] = Contents(c.engine, c.h)]
        /\ UNCHANGED <<envvars, hvars, btvars, lmvars, txn, local, res, before,
                       applied, gvars, conc>>

\* The caller has looked at the result; the call becomes part of what the
\* calls made so far ask for.
AckMain ==
    /\ pc[MainThread] = "done"
    /\ call[MainThread].op \in ReadOps \cup WriteOps
    /\ LET c == call[MainThread]
           r == res[MainThread] IN
         /\ model' = [model EXCEPT ![c.engine][c.key] = ModelAfter(@, c, r)]
         /\ phase' = [phase EXCEPT ![c.engine][c.key] = PhaseAfter(@, c, r)]
         /\ lastH' = [lastH EXCEPT ![c.engine][c.key] =
                        IF c.op \in WriteOps /\ r.ok THEN c.h ELSE @]
    /\ pc' = [pc EXCEPT ![MainThread] = "idle"]
    /\ call' = [call EXCEPT ![MainThread] = NoCall]
    /\ res' = [res EXCEPT ![MainThread] = NoRes]
    /\ pre' = [pre EXCEPT ![MainThread] = NoPre]
    /\ before' = [before EXCEPT ![MainThread] = Unset]
    /\ applied' = [applied EXCEPT ![MainThread] = <<>>]
    /\ UNCHANGED <<envvars, hvars, btvars, lmvars, txn, local, conc>>

\* let db_clone = db.clone();
CloneBTreeMapDB ==
    /\ Active(BTREEMAP)
    /\ btHandle["db"] # NoStore /\ btHandle["db_clone"] = NoStore
    /\ LET r == BTreeMapDB_clone(btHandle, btMap, "db", "db_clone") IN
         /\ btHandle' = r.handles
         /\ btMap' = r.maps
    /\ UNCHANGED <<envvars, btLock, lmHandle, lmvars, pc, call, txn, local, res,
                   pre, before, applied, gvars, conc>>

CloneLMDB ==
    /\ Active(LMDBENG)
    /\ lmHandle["db"] # NoStore /\ lmHandle["db_clone"] = NoStore
    /\ LET r == LMDB_clone(lmHandle, lmCommitted, "db", "db_clone") IN
         /\ lmHandle' = r.handles
         /\ lmCommitted' = r.envs
    /\ UNCHANGED <<envvars, btHandle, btvars, lmWriter, pc, call, txn, local, res,
                   pre, before, applied, gvars, conc>>

----------------------------------------------------------------------------
(* BTreeMapDB: impl DBMap for BTreeMapDB *)

BtStore(t) == btHandle[call[t].h]

BtRunning(t, p, ops) ==
    /\ pc[t] = p
    /\ call[t].engine = BTREEMAP
    /\ call[t].op \in ops

\* A return that keeps the mutex locked.
BtUnlock_keeps(t) == UNCHANGED btLock

\* The guards map_lock and map are dropped when the method returns.
BtUnlock(t) == btLock' = [btLock EXCEPT ![BtStore(t)] = NoThread]

\* What every step of BTreeMapDB leaves alone.
btrest == <<envvars, hvars, lmvars, call, txn, pre, gvars, conc>>

\* What a step of BTreeMapDB that does not run F leaves alone besides the
\* map, the lock and the thread's own pc, local, res and before.
btframe == <<btrest, applied>>

\* The call of thread t passes the borrowed view `bytes` to F.
Apply(t, bytes) == applied' = [applied EXCEPT ![t] = Append(@, bytes)]

\* let map_lock = self.0.lock(); let map = map_lock.borrow[_mut]();
BtLock(t) ==
    /\ BtRunning(t, "lock", ReadOps \cup WriteOps)
    /\ MutexFree(btLock[BtStore(t)])
    /\ btLock' = [btLock EXCEPT ![BtStore(t)] = t]
    /\ Continue(t, "body", local[t])
    /\ UNCHANGED <<btframe, btMap, before>>

\* get_map: map.get(key.as_ref()) -- None returns Ok(None), Some goes on to
\* the mapper.
BtGetMapLookup(t) ==
    /\ BtRunning(t, "body", ReadOps)
    /\ IF BTreeMap_get(btMap[BtStore(t)], call[t].key) = None
       THEN Finish(t, Ok(None)) /\ BtUnlock(t)
       ELSE Continue(t, "mapper", local[t]) /\ UNCHANGED btLock
    /\ UNCHANGED <<btframe, btMap, before>>

\* A transform that calls a method of a handle of the store begins, as every
\* BTreeMapDB method does, with self.0.lock() on a mutex that is not
\* re-entrant: it goes on only once that lock is free.
BtMapperCanRun(t) ==
    call[t].mapper = REENTER
    => \E h \in Handles : /\ btHandle[h] # NoStore
                          /\ MutexFree(btLock[btHandle[h]])

\* get_map: .map(|v| mapper(v)) on the entry borrowed from the map.
BtGetMapMapper(t) ==
    /\ BtRunning(t, "mapper", ReadOps)
    /\ BtMapperCanRun(t)
    /\ Finish(t, Ok(Some(ApplyMapper(EffMapper(call[t]),
                    BTreeMap_get(btMap[BtStore(t)], call[t].key).val))))
    /\ Apply(t, BTreeMap_get(btMap[BtStore(t)], call[t].key).val)
    /\ BtUnlock(t)
    /\ UNCHANGED <<btrest, btMap, before>>

\* insert: map.insert(key.to_vec(), value.to_vec()); Ok(())
BtInsert(t) ==
    /\ BtRunning(t, "body", {"insert"})
    /\ LET m == btMap[BtStore(t)]
           r == BTreeMap_insert(m, call[t].key, to_vec(call[t].value)) IN
         /\ btMap' = [btMap EXCEPT ![BtStore(t)] = r.map]
         /\ before' = [before EXCEPT ![t] = m[call[t].key]]
         /\ Finish(t, Ok(Unit))
    /\ BtUnlock(t)
    /\ UNCHANGED btframe

\* fetch_and_replace: Ok(map.insert(key.to_vec(), value.to_vec()))
BtFetchAndReplace(t) ==
    /\ BtRunning(t, "body", {"fetch_and_replace"})
    /\ LET m == btMap[BtStore(t)]
           r == BTreeMap_insert(m, call[t].key, to_vec(call[t].value)) IN
         /\ btMap' = [btMap EXCEPT ![BtStore(t)] = r.map]
         /\ before' = [before EXCEPT ![t] = m[call[t].key]]
         /\ Finish(t, Ok(IF r.prev = None THEN None
                         ELSE Some([vec |-> r.prev.val])))
    /\ BtUnlock(t)
    /\ UNCHANGED btframe

\* fetch_and_replace_map: let prev_value = map.insert(..); a None returns
\* Ok(None), a Some goes on to the mapper.
BtFetchAndReplaceMapInsert(t) ==
    /\ BtRunning(t, "body", {"fetch_and_replace_map"})
    /\ LET m == btMap[BtStore(t)]
           r == BTreeMap_insert(m, call[t].key, to_vec(call[t].value)) IN
         /\ btMap' = [btMap EXCEPT ![BtStore(t)] = r.map]
         /\ before' = [before EXCEPT ![t] = m[call[t].key]]
         /\ IF r.prev = None
            THEN Finish(t, Ok(None)) /\ BtUnlock(t)
            ELSE Continue(t, "mapper", r.prev) /\ UNCHANGED btLock
    /\ UNCHANGED btframe

\* fetch_and_replace_map: Ok(prev_value.map(|v| mapper(v.as_ref())))
BtFetchAndReplaceMapMapper(t) ==
    /\ BtRunning(t, "mapper", {"fetch_and_replace_map"})
    /\ BtMapperCanRun(t)
    /\ Finish(t, Ok(Some(ApplyMapper(EffMapper(call[t]), local[t].val))))
    /\ Apply(t, local[t].val)
    /\ BtUnlock(t)
    /\ UNCHANGED <<btrest, btMap, before>>

\* remove: map.remove(key.as_ref()); Ok(())
BtRemove(t) ==
    /\ BtRunning(t, "body", {"remove"})
    /\ LET m == btMap[BtStore(t)] IN
         /\ btMap' = [btMap EXCEPT ![BtStore(t)] = BTreeMap_remove(m, call[t].key)]
         /\ before' = [before EXCEPT ![t] = m[call[t].key]]
         /\ Finish(t, Ok(Unit))
    /\ BtUnlock(t)
    /\ UNCHANGED btframe

BtStep(t) ==
    \/ BtLock(t)
    \/ BtGetMapLookup(t)
    \/ BtGetMapMapper(t)
    \/ BtInsert(t)
    \/ BtFetchAndReplace(t)
    \/ BtFetchAndReplaceMapInsert(t)
    \/ BtFetchAndReplaceMapMapper(t)
    \/ BtRemove(t)

----------------------------------------------------------------------------
(* LMDB: impl DBMap for LMDB *)

LmStore(t) == lmHandle[call[t].h]

LmRunning(t, p, ops) ==
    /\ pc[t] = p
    /\ call[t].engine = LMDBENG
    /\ call[t].op \in ops

\* What the thread's open transaction reads from.
LmView(t) == Txn_view(txn[t].view, lmCommitted[LmStore(t)])

\* A return that leaves the transaction open.
TxnDrop_leaks(t) == UNCHANGED <<txn, lmWriter, lmCommitted>>

\* The method returns with its transaction not committed: the transaction
\* is dropped, which aborts it and, for a write transaction, releases the
\* writer mutex.
TxnDrop(t) ==
    /\ txn' = [txn EXCEPT ![t] = NoTxn]
    /\ IF txn[t].kind = "rw"
       THEN /\ lmWriter' = [lmWriter EXCEPT ![LmStore(t)] = NoThread]
            /\ lmCommitted' = [lmCommitted EXCEPT ![LmStore(t)] =
                                 Txn_abort(@, txn[t].view)]
       ELSE UNCHANGED <<lmWriter, lmCommitted>>

\* What every step of LMDB leaves alone.
lmrest == <<envvars, hvars, btvars, call, pre, gvars, conc>>

\* What a step of LMDB that does not run F leaves alone besides the
\* environment, the thread's transaction and its own pc, local, res and
\* before.
lmframe == <<lmrest, applied>>

\* get_map: let txn = self.begin_ro_txn().map_err(..)?;
LmBeginRo(t) ==
    /\ LmRunning(t, "begin", ReadOps)
    /\ \E fails \in FaultChoice :
         IF fails
         THEN Finish(t, DBError(EngineFault)) /\ UNCHANGED <<txn, before>>
         ELSE /\ txn' = [txn EXCEPT ![t] =
                          [kind |-> "ro",
                           view |-> Txn_snapshot(lmCommitted[LmStore(t)])]]
              /\ before' = [before EXCEPT ![t] =
                              lmCommitted[LmStore(t)][call[t].key]]
              /\ Continue(t, "txn_get", local[t])
    /\ UNCHANGED <<lmframe, lmvars>>

\* insert / fetch_and_replace_map / remove:
\* let mut txn = self.begin_rw_txn().map_err(..)?;
LmBeginRw(t) ==
    /\ LmRunning(t, "begin", WriteOps)
    /\ \E fails \in FaultChoice :
         IF fails
         THEN Finish(t, DBError(EngineFault)) /\ UNCHANGED <<txn, lmWriter>>
         ELSE /\ WriterFree(lmWriter[LmStore(t)])
              /\ lmWriter' = [lmWriter EXCEPT ![LmStore(t)] = t]
              /\ txn' = [txn EXCEPT ![t] =
                          [kind |-> "rw",
                           view |-> Txn_snapshot(lmCommitted[LmStore(t)])]]
              /\ Continue(t, IF call[t].op = "insert" THEN "txn_put"
                             ELSE IF call[t].op = "remove" THEN "txn_del"
                             ELSE "txn_get", local[t])
    /\ UNCHANGED <<lmframe, lmCommitted, before>>

\* get_map: match txn.get(**db, &key) { Ok(result) => ..,
\*   Err(NotFound) => Ok(None), Err(err) => Err(..) }
LmGetMapGet(t) ==
    /\ LmRunning(t, "txn_get", ReadOps)
    /\ \E fails \in FaultChoice :
         IF fails
         THEN Finish(t, DBError(EngineFault)) /\ TxnDrop(t)
         ELSE IF Txn_get(LmView(t), call[t].key).ok
         THEN Continue(t, "mapper", local[t]) /\ UNCHANGED <<txn, lmvars>>
         ELSE Finish(t, Ok(None)) /\ TxnDrop(t)
    /\ UNCHANGED <<lmframe, before>>

\* get_map: Ok(result) => Ok(Some(mapper(result))), and the transaction is
\* dropped on return.
LmGetMapMapper(t) ==
    /\ LmRunning(t, "mapper", ReadOps)
    /\ Finish(t, Ok(Some(ApplyMapper(EffMapper(call[t]),
                         Txn_get(LmView(t), call[t].key).val))))
    /\ Apply(t, Txn_get(LmView(t), call[t].key).val)
    /\ TxnDrop(t)
    /\ UNCHANGED <<lmrest, before>>

\* fetch_and_replace_map: let result = match txn.get(**db, &key) {
\*   Ok(result) => Some(mapper(result)), Err(NotFound) => None,
\*   Err(err) => { return Err(..) } };
LmFetchAndReplaceMapGet(t) ==
    /\ LmRunning(t, "txn_get", {"fetch_and_replace", "fetch_and_replace_map"})
    /\ \E fails \in FaultChoice :
         IF fails
         THEN Finish(t, DBError(EngineFault)) /\ TxnDrop(t)
         ELSE IF Txn_get(LmView(t), call[t].key).ok
         THEN Continue(t, "mapper", local[t]) /\ UNCHANGED <<txn, lmvars>>
         ELSE Continue(t, "txn_put", None) /\ UNCHANGED <<txn, lmvars>>
    /\ UNCHANGED <<lmframe, before>>

\* fetch_and_replace_map: Ok(result) => Some(mapper(result))
LmFetchAndReplaceMapMapper(t) ==
    /\ LmRunning(t, "mapper", {"fetch_and_replace", "fetch_and_replace_map"})
    /\ Continue(t, "txn_put",
                Some(ApplyMapper(EffMapper(call[t]),
                                 Txn_get(LmView(t), call[t].key).val)))
    /\ Apply(t, Txn_get(LmView(t), call[t].key).val)
    /\ UNCHANGED <<lmrest, lmvars, txn, before>>

\* insert / fetch_and_replace_map:
\* txn.put(**db, &key, &value, WriteFlags::empty()).map_err(..)?;
LmPut(t) ==
    /\ LmRunning(t, "txn_put", {"insert", "fetch_and_replace", "fetch_and_replace_map"})
    /\ \E fails \in FaultChoice :
         IF fails
         THEN Finish(t, DBError(EngineFault)) /\ TxnDrop(t)
         ELSE /\ txn' = [txn EXCEPT ![t].view =
                          Txn_put(@, call[t].key, to_vec(call[t].value))]
              /\ Continue(t, "commit", local[t])
              /\ UNCHANGED lmvars
    /\ UNCHANGED <<lmframe, before>>

\* remove: txn.del(**db, &key, None).map_err(..)?;
LmDel(t) ==
    /\ LmRunning(t, "txn_del", {"remove"})
    /\ \E fails \in FaultChoice :
         LET d == Txn_del(txn[t].view, call[t].key) IN
         IF fails
         THEN Finish(t, DBError(EngineFault)) /\ TxnDrop(t)
         ELSE IF d.r.ok
         THEN /\ txn' = [txn EXCEPT ![t].view = d.view]
              /\ Continue(t, "commit", local[t])
              /\ UNCHANGED lmvars
         ELSE Finish(t, d.r) /\ TxnDrop(t)
    /\ UNCHANGED <<lmframe, before>>

\* insert / fetch_and_replace_map / remove:
\* txn.commit().map_err(..)?; Ok(..)
LmCommit(t) ==
    /\ LmRunning(t, "commit", WriteOps)
    /\ \E fails \in FaultChoice :
         IF fails
         THEN /\ Finish(t, DBError(EngineFault))
              /\ TxnDrop(t)
              /\ UNCHANGED before
         ELSE /\ lmCommitted' = [lmCommitted EXCEPT ![LmStore(t)] =
                                   Txn_commit(@, txn[t].view)]
              /\ lmWriter' = [lmWriter EXCEPT ![LmStore(t)] = NoThread]
              /\ txn' = [txn EXCEPT ![t] = NoTxn]
              /\ before' = [before EXCEPT ![t] =
                              lmCommitted[LmStore(t)][call[t].key]]
              /\ Finish(t, Ok(IF call[t].op \in {"insert", "remove"}
                              THEN Unit ELSE local[t]))
    /\ UNCHANGED lmframe

LmStep(t) ==
    \/ LmBeginRo(t)
    \/ LmBeginRw(t)
    \/ LmGetMapGet(t)
    \/ LmGetMapMapper(t)
    \/ LmFetchAndReplaceMapGet(t)
    \/ LmFetchAndReplaceMapMapper(t)
    \/ LmPut(t)
    \/ LmDel(t)
    \/ LmCommit(t)

----------------------------------------------------------------------------
(* The single-caller specification *)

Step == \E t \in Threads : BtStep(t) \/ LmStep(t)

Clone == CloneBTreeMapDB \/ CloneLMDB

Next == InvokeMain \/ AckMain \/ Clone \/ Step

Spec == Init /\ [][Next]_vars

----------------------------------------------------------------------------
(* Two threads, each calling through its own clone of the handle, on an     *)
(* environment whose lmdb calls do not fail.                                *)

HandleOf(t) == IF t = MainThread THEN "db" ELSE "db_clone"

Other(t) == IF t = MainThread THEN PeerThread ELSE MainThread

\* let db_clone = db.clone(); then one thread is given each handle.
InitConc ==
    /\ suite \in Engines
    /\ faulty = FALSE
    /\ btHandle = BTreeMapDB_clone([h \in Handles |-> IF h = "db" THEN "s1" ELSE NoStore],
                                   [s \in Stores |-> EmptyMap], "db", "db_clone").handles
    /\ btMap = [s \in Stores |-> EmptyMap]
    /\ btLock = [s \in Stores |-> NoThread]
    /\ lmHandle = LMDB_clone([h \in Handles |-> IF h = "db" THEN "s1" ELSE NoStore],
                             [s \in Stores |-> EmptyMap], "db", "db_clone").handles
    /\ lmCommitted = [s \in Stores |-> EmptyMap]
    /\ lmWriter = [s \in Stores |-> NoThread]
    /\ pc = [t \in Threads |-> "idle"]
    /\ call = [t \in Threads |-> NoCall]
    /\ txn = [t \in Threads |-> NoTxn]
    /\ local = [t \in Threads |-> None]
    /\ res = [t \in Threads |-> NoRes]
    /\ pre = [t \in Threads |-> NoPre]
    /\ before = [t \in Threads |-> Unset]
    /\ applied = [t \in Threads |-> <<>>]
    /\ model = [e \in Engines |-> [k \in Keys |-> None]]
    /\ phase = [e \in Engines |-> [k \in Keys |-> "fresh"]]
    /\ lastH = [e \in Engines |-> [k \in Keys |-> "none"]]
    /\ conc = FALSE

\* A thread starts a call while the other may be in the middle of one.
InvokeConc(t) ==
    \E op \in ReadOps \cup WriteOps, k \in Keys :
    \E v \in ValueArgs(op), f \in MapperArgs(op) :
        LET c == [engine |-> suite, h |-> HandleOf(t), op |-> op, key |-> k,
                  value |-> v, mapper |-> f] IN
        /\ pc[t] = "idle"
        /\ Callable(c)
        /\ pc' = [pc EXCEPT ![t] = FirstPc(c.engine)]
        /\ call' = [call EXCEPT ![t] = c]
        /\ conc' = Busy(Other(t))
        /\ UNCHANGED <<envvars, hvars, btvars, lmvars, txn, local, res, pre,
                       before, applied, gvars>>

\* The thread has looked at the result of its call.
AckConc(t) ==
    /\ pc[t] = "done"
    /\ pc' = [pc EXCEPT ![t] = "idle"]
    /\ call' = [call EXCEPT ![t] = NoCall]
    /\ res' = [res EXCEPT ![t] = NoRes]
    /\ before' = [before EXCEPT ![t] = Unset]
    /\ applied' = [applied EXCEPT ![t] = <<>>]
    /\ conc' = FALSE
    /\ UNCHANGED <<envvars, hvars, btvars, lmvars, txn, local, pre, gvars>>

NextConc ==
    \/ \E t \in Threads : InvokeConc(t)
    \/ \E t \in Threads : AckConc(t)
    \/ Step

SpecConc == InitConc /\ [][NextConc]_vars

----------------------------------------------------------------------------
(* The same calls on a fresh BTreeMapDB (MainThread) and on a fresh LMDB    *)
(* (PeerThread) whose lmdb calls do not fail, in lock step.                 *)

InitEquiv == suite = BOTH /\ faulty = FALSE /\ InitCommon

InvokePair ==
    \E h \in Handles, op \in ReadOps \cup WriteOps, k \in Keys :
    \E v \in ValueArgs(op), f \in MapperArgs(op) :
        LET c == [engine |-> BTREEMAP, h |-> h, op |-> op, key |-> k,
                  value |-> v, mapper |-> f]
            d == [c EXCEPT !.engine = LMDBENG] IN
        /\ pc[MainThread] = "idle" /\ pc[PeerThread] = "idle"
        /\ Callable(c) /\ Callable(d)
        /\ pc' = [pc EXCEPT ![MainThread] = FirstPc(BTREEMAP),
                            ![PeerThread] = FirstPc(LMDBENG)]
        /\ call' = [call EXCEPT ![MainThread] = c, ![PeerThread] = d]
        /\ UNCHANGED <<envvars, hvars, btvars, lmvars, txn, local, res, pre,
                       before, applied, gvars, conc>>

AckPair ==
    /\ pc[MainThread] = "done" /\ pc[PeerThread] = "done"
    /\ pc' = [t \in Threads |-> "idle"]
    /\ call' = [t \in Threads |-> NoCall]
    /\ res' = [t \in Threads |-> NoRes]
    /\ before' = [t \in Threads |-> Unset]
    /\ applied' = [t \in Threads |-> <<>>]
    /\ UNCHANGED <<envvars, hvars, btvars, lmvars, txn, local, pre, gvars, conc>>

NextEquiv == InvokePair \/ AckPair \/ Clone \/ Step

SpecEquiv == InitEquiv /\ [][NextEquiv]_vars

----------------------------------------------------------------------------
(* The life of an LMDB environment directory: LMDB::open, calls through the *)
(* handle and its clone, drop of every handle, LMDB::open again on the same *)
(* path.  lmCommitted["s1"] is the data file of that path.                  *)

\* How the environment lets a step of open end.
OpenOutcomes(faults) == IF faulty THEN {"ok"} \cup faults ELSE {"ok"}

\* Before the first `let db = LMDB::open(path, None, LMDBArgs::default())`.
InitOpen ==
    /\ suite = LMDBENG
    /\ faulty = TRUE
    /\ btHandle = [h \in Handles |-> NoStore]
    /\ btMap = [s \in Stores |-> EmptyMap]
    /\ btLock = [s \in Stores |-> NoThread]
    /\ lmHandle = [h \in Handles |-> NoStore]
    /\ lmCommitted = [s \in Stores |-> EmptyMap]
    /\ lmWriter = [s \in Stores |-> NoThread]
    /\ pc = [t \in Threads |-> "idle"]
    /\ call = [t \in Threads |-> NoCall]
    /\ txn = [t \in Threads |-> NoTxn]
    /\ local = [t \in Threads |-> None]
    /\ res = [t \in Threads |-> NoRes]
    /\ pre = [t \in Threads |-> NoPre]
    /\ before = [t \in Threads |-> Unset]
    /\ applied = [t \in Threads |-> <<>>]
    /\ model = [e \in Engines |-> [k \in Keys |-> None]]
    /\ phase = [e \in Engines |-> [k \in Keys |-> "fresh"]]
    /\ lastH = [e \in Engines |-> [k \in Keys |-> "none"]]
    /\ conc = FALSE

\* LMDB::open(env_path, db_name, lmdb_args), called while no handle is
\* alive.
OpenLMDB ==
    /\ pc[MainThread] = "idle"
    /\ Active(LMDBENG)
    /\ \A h \in Handles : lmHandle[h] = NoStore
    /\ pc' = [pc EXCEPT ![MainThread] = "env_open"]
    /\ call' = [call EXCEPT ![MainThread] =
                  [NoCall EXCEPT !.engine = LMDBENG, !.h = "db", !.op = "open"]]
    /\ UNCHANGED <<envvars, hvars, btvars, lmvars, txn, local, res, pre, before,
                   applied, gvars, conc>>

\* open_inner: let env = Arc::new(builder.open(env_path)?);
LmEnvOpen(t) ==
    /\ LmRunning(t, "env_open", {"open"})
    /\ \E o \in OpenOutcomes({OsFault, EngineFault}) :
         IF o = "ok"
         THEN /\ lmCommitted' = [lmCommitted EXCEPT !["s1"] = Environment_open(@)]
              /\ Continue(t, "create_db", local[t])
         ELSE /\ Finish(t, From_anyhow(o))
              /\ UNCHANGED lmCommitted
    /\ UNCHANGED <<lmframe, lmWriter, txn, before>>

\* open_inner: let db = Arc::new(env.create_db(db_name, ..)?); Ok(Self {..})
\* An error drops env, which closes the environment.
LmCreateDb(t) ==
    /\ LmRunning(t, "create_db", {"open"})
    /\ \E o \in OpenOutcomes({EngineFault}) :
         IF o = "ok"
         THEN /\ lmHandle' = [lmHandle EXCEPT ![call[t].h] = "s1"]
              /\ Finish(t, Ok(Unit))
         ELSE /\ Finish(t, From_anyhow(o))
              /\ UNCHANGED lmHandle
    /\ UNCHANGED <<envvars, btHandle, btvars, lmvars, call, txn, pre, before,
                   applied, gvars, conc>>

\* The caller has looked at what open returned.
AckOpen ==
    /\ pc[MainThread] = "done"
    /\ call[MainThread].op = "open"
    /\ pc' = [pc EXCEPT ![MainThread] = "idle"]
    /\ call' = [call EXCEPT ![MainThread] = NoCall]
    /\ res' = [res EXCEPT ![MainThread] = NoRes]
    /\ UNCHANGED <<envvars, hvars, btvars, lmvars, txn, local, pre, before,
                   applied, gvars, conc>>

\* Every handle is dropped (the process ends): the last Arc<Environment>
\* goes and the environment is closed.  What was written to a key so far
\* was written through handles that are gone.
DropAll ==
    /\ \A t \in Threads : pc[t] = "idle"
    /\ lmHandle["db"] # NoStore
    /\ lmHandle' = [h \in Handles |-> NoStore]
    /\ lastH' = [lastH EXCEPT ![LMDBENG] = [k \in Keys |-> "dropped"]]
    /\ UNCHANGED <<envvars, btHandle, btvars, lmvars, pc, call, txn, local, res,
                   pre, before, applied, model, phase, conc>>

NextOpen ==
    \/ OpenLMDB
    \/ \E t \in Threads : LmEnvOpen(t) \/ LmCreateDb(t)
    \/ AckOpen
    \/ DropAll
    \/ InvokeMain
    \/ AckMain
    \/ CloneLMDB
    \/ \E t \in Threads : LmStep(t)

SpecOpen == InitOpen /\ [][NextOpen]_vars

----------------------------------------------------------------------------
(* A single caller of either engine whose lmdb calls do not fail and whose  *)
(* callbacks on BTreeMapDB may call back into the store.                    *)

InitReenter == suite \in Engines /\ faulty = FALSE /\ InitCommon

\* db.get_map(key, F) / db.fetch_and_replace_map(key, value, F) on a
\* BTreeMapDB, with an F that calls a method of db or of db_clone.
InvokeReenter ==
    \E h \in Handles, op \in {"get_map", "fetch_and_replace_map"}, k \in Keys :
    \E v \in ValueArgs(op) :
        LET c == [engine |-> BTREEMAP, h |-> h, op |-> op, key |-> k,
                  value |-> v, mapper |-> REENTER] IN
        /\ pc[MainThread] = "idle"
        /\ Callable(c)
        /\ pc' = [pc EXCEPT ![MainThread] = FirstPc(c.engine)]
        /\ call' = [call EXCEPT ![MainThread] = c]
        /\ pre' = [pre EXCEPT ![MainThread] = Contents(c.engine, c.h)]
        /\ UNCHANGED <<envvars, hvars, btvars, lmvars, txn, local, res, before,
                       applied, gvars, conc>>

NextReenter == InvokeMain \/ InvokeReenter \/ AckMain \/ Clone \/ Step

SpecReenter == InitReenter /\ [][NextReenter]_vars

----------------------------------------------------------------------------
(* A single caller with BTreeMapDB handles of two separate open() calls     *)
(* and a clone of the first.                                                *)

InitTwo == suite = BTREEMAP /\ faulty = FALSE /\ InitCommon

\* let db2 = BTreeMapDB::open();
OpenSecond ==
    /\ pc[MainThread] = "idle"
    /\ btHandle["db2"] = NoStore
    /\ LET r == BTreeMapDB_open(btHandle, btMap, "db2") IN
         /\ btHandle' = r.handles
         /\ btMap' = r.maps
    /\ UNCHANGED <<envvars, btLock, lmHandle, lmvars, pc, call, txn, local, res,
                   pre, before, applied, gvars, conc>>

\* The caller has looked at the result of its call.
AckTwo ==
    /\ pc[MainThread] = "done"
    /\ pc' = [pc EXCEPT ![MainThread] = "idle"]
    /\ call' = [call EXCEPT ![MainThread] = NoCall]
    /\ res' = [res EXCEPT ![MainThread] = NoRes]
    /\ pre' = [pre EXCEPT ![MainThread] = NoPre]
    /\ before' = [before EXCEPT ![MainThread] = Unset]
    /\ applied' = [applied EXCEPT ![MainThread] = <<>>]
    /\ UNCHANGED <<envvars, hvars, btvars, lmvars, txn, local, gvars, conc>>

NextTwo ==
    \/ OpenSecond
    \/ InvokeMain
    \/ AckTwo
    \/ CloneBTreeMapDB
    \/ \E t \in Threads : BtStep(t)

SpecTwo == InitTwo /\ [][NextTwo]_vars

----------------------------------------------------------------------------
(* Two threads calling a BTreeMapDB through a handle and its clone, with    *)
(* the scheduling the program runs under: a thread that can take its next   *)
(* step inside a method is eventually run (weak fairness of its steps), and *)
(* a thread that waits in Mutex::lock is not passed over for ever when the  *)
(* mutex is released again and again (parking_lot's eventual fairness:      *)
(* strong fairness of the lock step).  A thread need not make another call. *)
(* The mutex is one for the whole map, so the calls are made on one key.    *)

InitLive ==
    /\ suite = BTREEMAP
    /\ faulty = FALSE
    /\ btHandle = BTreeMapDB_clone([h \in Handles |-> IF h = "db" THEN "s1" ELSE NoStore],
                                   [s \in Stores |-> EmptyMap], "db", "db_clone").handles
    /\ btMap = [s \in Stores |-> EmptyMap]
    /\ btLock = [s \in Stores |-> NoThread]
    /\ lmHandle = [h \in Handles |-> NoStore]
    /\ lmCommitted = [s \in Stores |-> EmptyMap]
    /\ lmWriter = [s \in Stores |-> NoThread]
    /\ pc = [t \in Threads |-> "idle"]
    /\ call = [t \in Threads |-> NoCall]
    /\ txn = [t \in Threads |-> NoTxn]
    /\ local = [t \in Threads |-> None]
    /\ res = [t \in Threads |-> NoRes]
    /\ pre = [t \in Threads |-> NoPre]
    /\ before = [t \in Threads |-> Unset]
    /\ applied = [t \in Threads |-> <<>>]
    /\ model = [e \in Engines |-> [k \in Keys |-> None]]
    /\ phase = [e \in Engines |-> [k \in Keys |-> "fresh"]]
    /\ lastH = [e \in Engines |-> [k \in Keys |-> "none"]]
    /\ conc = FALSE

\* The key the two threads contend on.
LiveKeys == {<<19>>}

\* A thread starts a call while the other may be in the middle of one.
InvokeLive(t) ==
    \E op \in ReadOps \cup WriteOps, k \in LiveKeys :
    \E v \in ValueArgs(op), f \in MapperArgs(op) :
        LET c == [engine |-> suite, h |-> HandleOf(t), op |-> op, key |-> k,
                  value |-> v, mapper |-> f] IN
        /\ pc[t] = "idle"
        /\ Callable(c)
        /\ pc' = [pc EXCEPT ![t] = FirstPc(c.engine)]
        /\ call' = [call EXCEPT ![t] = c]
        /\ conc' = Busy(Other(t))
        /\ UNCHANGED <<envvars, hvars, btvars, lmvars, txn, local, res, pre,
                       before, applied, gvars>>

NextLive ==
    \/ \E t \in Threads : InvokeLive(t)
    \/ \E t \in Threads : AckConc(t)
    \/ \E t \in Threads : BtStep(t)

FairLive ==
    \A t \in Threads : WF_vars(BtStep(t)) /\ SF_vars(BtLock(t))

SpecLive == InitLive /\ [][NextLive]_vars /\ FairLive

----------------------------------------------------------------------------
(* Vocabulary of the properties *)

Done(t) == pc[t] = "done"

\* The call returned an error the environment injected (not NotFound).
Injected(r) == ~r.ok /\ r.cause = EngineFault

\* What a read or a replace with transform F returns for the entry m.
Expected(c, m) ==
    IF m = None THEN None ELSE Some(ApplyMapper(EffMapper(c), m.val))

\* The contents seen through the handle of thread t's call.
Seen(t) == Contents(call[t].engine, call[t].h)

----------------------------------------------------------------------------
(* C1 *)

\* C1: remove of a key that has no entry returns Ok(()) and leaves the store
\* as it was, on both engines, however often it is repeated (unless the
\* environment fails an lmdb call).
C1_RemoveAbsentIsOk ==
    \A t \in Threads :
        (Done(t) /\ call[t].op = "remove" /\ pre[t][call[t].key] = None
                 /\ ~Injected(res[t]))
        => (res[t] = Ok(Unit) /\ Seen(t) = pre[t])

----------------------------------------------------------------------------
(* C2 *)

\* C2: a read through one handle returns what the last successful write to
\* the key stored, when that write was made through the other clone.
C2_ClonesShareStore ==
    \A t \in Threads :
        LET c == call[t] IN
        (Done(t) /\ c.op \in ReadOps /\ res[t].ok
                 /\ lastH[c.engine][c.key] \notin {"none", c.h})
        => res[t].val = Expected(c, model[c.engine][c.key])

\* A get through the original handle has returned the value a write through
\* the clone stored.
C2_Witness ==
    \E t \in Threads :
        /\ Done(t) /\ call[t].op = "get" /\ call[t].h = "db"
        /\ lastH[call[t].engine][call[t].key] = "db_clone"
        /\ res[t].ok /\ res[t].val # None

----------------------------------------------------------------------------
(* C3 *)

\* C3: a replace that returns Ok returns (through its transform) the entry
\* that was stored under the key immediately before its own write took
\* effect, whatever the other thread does to the key meanwhile.
C3_ReplaceIsAtomic ==
    \A t \in Threads :
        (Done(t) /\ IsReplace(call[t].op) /\ res[t].ok)
        => (before[t] # Unset /\ res[t].val = Expected(call[t], before[t]))

\* Two replaces of the same key that overlapped in time have both returned,
\* one of them with the value the other wrote.
C3_Witness ==
    /\ conc
    /\ \A t \in Threads : Done(t) /\ IsReplace(call[t].op) /\ res[t].ok
    /\ call[MainThread].key = call[PeerThread].key
    /\ call[MainThread].value # call[PeerThread].value
    /\ \E t \in Threads :
         res[t].val = Expected(call[t], Some(call[Other(t)].value))

----------------------------------------------------------------------------
(* C4 *)

\* C4: the same call on a BTreeMapDB and on an LMDB that went through the
\* same calls returns the same result and leaves the same contents.
C4_EnginesAgree ==
    (Done(MainThread) /\ Done(PeerThread))
    => /\ res[MainThread] = res[PeerThread]
       /\ Seen(MainThread) = Seen(PeerThread)

----------------------------------------------------------------------------
(* C5 *)

\* C5: an insert that returns Ok leaves its value under the key whatever was
\* there, and as long as the latest write calls on the key are inserts that
\* returned Ok, get returns Some of the bytes of the last one.
C5_InsertThenGet ==
    \A t \in Threads :
        LET c == call[t] IN
        /\ (Done(t) /\ c.op = "insert" /\ res[t].ok)
           => Seen(t)[c.key] = Some(c.value)
        /\ (Done(t) /\ c.op = "get" /\ ~Injected(res[t])
                    /\ phase[c.engine][c.key] \in {"put1", "put2"})
           => res[t] = Ok(Some([vec |-> model[c.engine][c.key].val]))

\* A get has returned the non-empty value of the second of two inserts.
C5_Witness ==
    \E t \in Threads :
        /\ Done(t) /\ call[t].op = "get"
        /\ phase[call[t].engine][call[t].key] = "put2"
        /\ res[t].ok /\ res[t].val # None /\ Len(res[t].val.val.vec) > 0

----------------------------------------------------------------------------
(* C6 *)

\* C6: while the only write calls on a key are replaces that returned Ok,
\* the first returns None, each later one returns the value of the one
\* before it through the transform, the store holds the value just written
\* and get returns it.
C6_ReplaceChain ==
    \A t \in Threads :
        LET c == call[t]
            p == phase[c.engine][c.key]
            m == model[c.engine][c.key] IN
        /\ (Done(t) /\ IsReplace(c.op) /\ ~Injected(res[t])
                    /\ p \in {"fresh", "repl1", "repl2"})
           => /\ res[t] = Ok(Expected(c, m))
              /\ (p = "fresh") = (res[t].val = None)
              /\ Seen(t)[c.key] = Some(c.value)
        /\ (Done(t) /\ c.op = "get" /\ ~Injected(res[t])
                    /\ p \in {"repl1", "repl2"})
           => res[t] = Ok(Some([vec |-> m.val]))

\* The third (or a later) replace in a row has returned the value of the
\* one before it.
C6_Witness ==
    \E t \in Threads :
        /\ Done(t) /\ IsReplace(call[t].op)
        /\ phase[call[t].engine][call[t].key] = "repl2"
        /\ res[t].ok /\ res[t].val # None
        /\ model[call[t].engine][call[t].key] # Some(call[t].value)

----------------------------------------------------------------------------
(* C7 *)

\* C7: after one or several inserts and then a remove that returned Ok,
\* get and get_map return None.
C7_RemoveAfterInsert ==
    \A t \in Threads :
        LET c == call[t] IN
        (Done(t) /\ c.op \in ReadOps /\ ~Injected(res[t])
                 /\ phase[c.engine][c.key] \in {"del_put1", "del_put2"})
        => res[t] = Ok(None)

\* A get_map has returned None for a key that was inserted twice and then
\* removed.
C7_Witness ==
    \E t \in Threads :
        /\ Done(t) /\ call[t].op = "get_map"
        /\ phase[call[t].engine][call[t].key] = "del_put2"
        /\ res[t] = Ok(None)

----------------------------------------------------------------------------
(* C8 *)

\* C8: get_map (and get, its to_vec case) returns None when the key has no
\* entry and otherwise Some(F(bytes)) for exactly the bytes stored.
C8_GetMapIsMappedGet ==
    \A t \in Threads :
        (Done(t) /\ call[t].op \in ReadOps /\ ~Injected(res[t]))
        => res[t] = Ok(Expected(call[t], Seen(t)[call[t].key]))

\* A get_map with the length transform has returned the length of a
\* non-empty stored value.
C8_Witness ==
    \E t \in Threads :
        /\ Done(t) /\ call[t].op = "get_map" /\ call[t].mapper = "len"
        /\ res[t].ok /\ res[t].val # None /\ res[t].val.val.len > 0

----------------------------------------------------------------------------
(* C9 *)

\* C9: a write on LMDB that returns Err leaves the contents as they were
\* when it was called.
C9_FailedWriteHasNoEffect ==
    \A t \in Threads :
        (Done(t) /\ call[t].engine = LMDBENG /\ call[t].op \in WriteOps
                 /\ ~res[t].ok)
        => Seen(t) = pre[t]

\* An insert that would have changed the entry has failed with an engine
\* error.
C9_Witness ==
    \E t \in Threads :
        /\ Done(t) /\ call[t].engine = LMDBENG /\ call[t].op = "insert"
        /\ Injected(res[t])
        /\ pre[t][call[t].key] # Some(call[t].value)

----------------------------------------------------------------------------
(* C10 *)

\* C10: when two inserts of distinct keys that overlapped in time have both
\* returned, each key holds its own value.
C10_ConcurrentInserts ==
    (/\ conc
     /\ \A t \in Threads : Done(t) /\ call[t].op = "insert" /\ res[t].ok
     /\ call[MainThread].key # call[PeerThread].key)
    => \A t \in Threads : Seen(t)[call[t].key] = Some(call[t].value)

\* Two overlapping inserts of distinct keys with distinct values have both
\* returned.
C10_Witness ==
    /\ conc
    /\ \A t \in Threads : Done(t) /\ call[t].op = "insert" /\ res[t].ok
    /\ call[MainThread].key # call[PeerThread].key
    /\ call[MainThread].value # call[PeerThread].value

----------------------------------------------------------------------------
(* C11 *)

\* C11: on a freshly opened store, as long as no insert or replace has been
\* called on a key (removes may have been), get and get_map of the key
\* return Ok(None) without running F, whatever happened to other keys.
C11_FreshStoreIsEmpty ==
    \A t \in Threads :
        LET c == call[t] IN
        (Done(t) /\ c.op \in ReadOps /\ ~Injected(res[t])
                 /\ phase[c.engine][c.key] \in {"fresh", "unput"})
        => (res[t] = Ok(None) /\ applied[t] = <<>>)

\* A read of a key never written has returned None while the other key
\* holds an entry.
C11_Witness ==
    \E t \in Threads :
        /\ Done(t) /\ call[t].op \in ReadOps
        /\ phase[call[t].engine][call[t].key] = "fresh"
        /\ res[t] = Ok(None)
        /\ \E k \in Keys : model[call[t].engine][k] # None

----------------------------------------------------------------------------
(* C12 *)

\* C12: get_map (and get) never reports a missing key as an error; when the
\* key has no entry F is not run and the result is Ok(None); when it has
\* one, a call that returns Ok has run F exactly once, on the stored bytes,
\* and a call that fails has not run it.
C12_MapperRunsOnceIfPresent ==
    \A t \in Threads :
        LET c == call[t]
            e == pre[t][c.key] IN
        (Done(t) /\ c.op \in ReadOps)
        => /\ res[t] # DBError(NotFound)
           /\ (e = None) => (applied[t] = <<>> /\ (res[t].ok => res[t] = Ok(None)))
           /\ (e # None) => applied[t] = IF res[t].ok THEN <<e.val>> ELSE <<>>

\* A get_map on LMDB has run F once, on a non-empty stored value, while the
\* other key has no entry.
C12_Witness ==
    \E t \in Threads :
        /\ Done(t) /\ call[t].op = "get_map" /\ call[t].engine = LMDBENG
        /\ pre[t][call[t].key] # None
        /\ applied[t] = <<pre[t][call[t].key].val>>
        /\ Len(applied[t][1]) > 0
        /\ \E k \in Keys : pre[t][k] = None

----------------------------------------------------------------------------
(* C13 *)

\* C13: fetch_and_replace_map passes to F nothing but the bytes stored under
\* the key when it was called; when it does not fail it returns Some(F(old))
\* after exactly one run of F, or None without running F when there was no
\* entry, and the store then holds the new value under the key.
C13_ReplaceMapsOldValue ==
    \A t \in Threads :
        LET c == call[t]
            e == pre[t][c.key] IN
        (Done(t) /\ c.op = "fetch_and_replace_map")
        => /\ \A i \in DOMAIN applied[t] : e # None /\ applied[t][i] = e.val
           /\ ~Injected(res[t])
              => /\ res[t] = Ok(Expected(c, e))
                 /\ applied[t] = IF e = None THEN <<>> ELSE <<e.val>>
                 /\ Seen(t)[c.key] = Some(c.value)

\* A fetch_and_replace_map with the length transform has replaced a value by
\* one of another length and returned the length of the old one.
C13_Witness ==
    \E t \in Threads :
        LET c == call[t] IN
        /\ Done(t) /\ c.op = "fetch_and_replace_map" /\ c.mapper = "len"
        /\ pre[t][c.key] # None
        /\ Len(pre[t][c.key].val) # Len(c.value)
        /\ res[t] = Ok(Some([len |-> Len(pre[t][c.key].val)]))

----------------------------------------------------------------------------
(* C14 *)

\* The to_vec case of a replace: fetch_and_replace, or fetch_and_replace_map
\* called with |k| k.to_vec().
CopyReplace(c) == IsReplace(c.op) /\ EffMapper(c) = "to_vec"

\* C14: fetch_and_replace and fetch_and_replace_map with the to_vec
\* transform are the same function of the contents at the call, the key and
\* the value: both return the old entry as an owned copy and both leave the
\* contents changed at the key alone, to the new value.
C14_ReplaceIsReplaceMapToVec ==
    \A t \in Threads :
        LET c == call[t] IN
        (Done(t) /\ CopyReplace(c) /\ ~Injected(res[t]))
        => /\ res[t] = Ok(IF pre[t][c.key] = None THEN None
                          ELSE Some([vec |-> pre[t][c.key].val]))
           /\ Seen(t) = [pre[t] EXCEPT ![c.key] = Some(c.value)]

\* BTreeMapDB's own fetch_and_replace has returned a non-empty old value.
C14_Witness ==
    \E t \in Threads :
        LET c == call[t] IN
        /\ Done(t) /\ c.op = "fetch_and_replace" /\ c.engine = BTREEMAP
        /\ res[t].ok /\ res[t].val # None /\ Len(res[t].val.val.vec) > 0
        /\ c.value # res[t].val.val.vec

----------------------------------------------------------------------------
(* C17 *)

\* C17: while F runs inside fetch_and_replace_map, the store still holds
\* under the key what it held when the method was called.
C17_MapperRunsBeforeStore ==
    \A t \in Threads :
        LET c == call[t] IN
        (pc[t] = "mapper" /\ c.op = "fetch_and_replace_map")
        => Seen(t)[c.key] = pre[t][c.key]

----------------------------------------------------------------------------
(* C18 *)

\* The thread is between taking the lock of a BTreeMapDB and returning.
InCritical(t) == call[t].engine = BTREEMAP /\ pc[t] \in {"body", "mapper"}

\* C18: a thread that runs the body of a BTreeMapDB method, its callback
\* included, holds the store's mutex, no other thread is in the body of a
\* method on the same store, and the mutex is held by nobody else.
C18_OneInCriticalSection ==
    \A t \in Threads :
        /\ InCritical(t)
           => /\ btLock[BtStore(t)] = t
              /\ ~(InCritical(Other(t)) /\ BtStore(Other(t)) = BtStore(t))
        /\ \A s \in Stores : btLock[s] = t => (InCritical(t) /\ BtStore(t) = s)

\* One thread runs its callback under the lock while the other, calling
\* through the clone, waits for the lock.
C18_Witness ==
    \E t \in Threads :
        /\ call[t].engine = BTREEMAP /\ pc[t] = "mapper"
        /\ call[Other(t)].engine = BTREEMAP /\ pc[Other(t)] = "lock"
        /\ call[t].h # call[Other(t)].h

----------------------------------------------------------------------------
(* C20 *)

\* C20: a get_map (or get) on LMDB passes to F, and returns through F, the
\* entry that was committed when its read transaction began, whatever the
\* other thread has put, deleted or committed since.
C20_ReadsOwnSnapshot ==
    \A t \in Threads :
        LET c == call[t] IN
        /\ (c.engine = LMDBENG /\ c.op \in ReadOps /\ pc[t] \in {"txn_get", "mapper"})
           => LmView(t)[c.key] = before[t]
        /\ (Done(t) /\ c.engine = LMDBENG /\ c.op \in ReadOps)
           => /\ res[t] = Ok(Expected(c, before[t]))
              /\ applied[t] = IF before[t] = None THEN <<>> ELSE <<before[t].val>>

\* A read has returned the entry of its snapshot although a write of the
\* other thread to the same key, begun and committed while the read was
\* running, has changed the committed entry.
C20_Witness ==
    \E t \in Threads :
        LET c == call[t] IN
        /\ conc
        /\ Done(t) /\ c.engine = LMDBENG /\ c.op \in ReadOps
        /\ Done(Other(t)) /\ call[Other(t)].op \in WriteOps /\ res[Other(t)].ok
        /\ call[Other(t)].key = c.key
        /\ Seen(t)[c.key] # before[t]
        /\ res[t] = Ok(Expected(c, before[t]))

----------------------------------------------------------------------------
(* C19 *)

\* The call of thread t on a BTreeMapDB has reached its callback, and the
\* callback calls back into the store.
InReentrantCallback(t) ==
    /\ call[t].engine = BTREEMAP /\ call[t].mapper = REENTER
    /\ pc[t] = "mapper"

\* C19: once a BTreeMapDB method has entered a callback that calls a method
\* of the handle or of its clone, it stays there for ever with the lock
\* held: the inner call never gets the lock and the outer call never
\* returns; a call with such a callback that has returned has not run it.
C19_ReentrantCallbackDeadlocks ==
    [][\A t \in Threads :
          /\ InReentrantCallback(t)
             => (InReentrantCallback(t) /\ btLock[BtStore(t)] = t)'
          /\ (Done(t) /\ call[t].mapper = REENTER)'
             => (res[t] = Ok(None) /\ applied[t] = <<>>)']_vars

\* A fetch_and_replace_map through the clone has entered such a callback,
\* the lock is held and the new value is already stored.
C19_Witness ==
    \E t \in Threads :
        /\ InReentrantCallback(t) /\ call[t].op = "fetch_and_replace_map"
        /\ call[t].h = "db_clone"
        /\ btLock[BtStore(t)] = t
        /\ Seen(t)[call[t].key] = Some(call[t].value)

----------------------------------------------------------------------------
(* C15 *)

\* C15, as claimed: an open that fails because the environment's files
\* cannot be created or opened returns Error::IoError, and every other
\* failure of open or of a method returns Error::DBError.
C15_OpenFileFailureIsIoError ==
    \A t \in Threads :
        (Done(t) /\ ~res[t].ok)
        => res[t].kind = IF call[t].op = "open" /\ res[t].cause = OsFault
                         THEN "IoError" ELSE "DBError"

\* C15, amended: every failure of LMDB::open, the failure to create or open
\* the environment's files included, and every failure of a method returns
\* Error::DBError.
C15_EveryFailureIsDBError ==
    \A t \in Threads : (Done(t) /\ ~res[t].ok) => res[t].kind = "DBError"

\* An open has failed on the environment's files.
C15_Witness ==
    \E t \in Threads :
        /\ Done(t) /\ call[t].op = "open"
        /\ ~res[t].ok /\ res[t].cause = OsFault

----------------------------------------------------------------------------
(* C16 *)

\* C16: after every handle was dropped and LMDB::open was called again on
\* the path, get of a key not written since returns what the calls made
\* before the drop left under it: the value of the last insert or replace
\* that returned Ok, nothing if a remove that returned Ok followed it, and
\* never the value of a call that returned Err.
C16_EntriesSurviveReopen ==
    \A t \in Threads :
        LET c == call[t] IN
        (Done(t) /\ c.engine = LMDBENG /\ c.op = "get" /\ ~Injected(res[t])
                 /\ lastH[LMDBENG][c.key] = "dropped")
        => res[t] = Ok(Expected(c, model[LMDBENG][c.key]))

\* After a reopen, get has returned a non-empty value written before the
\* drop.
C16_Witness ==
    \E t \in Threads :
        LET c == call[t] IN
        /\ Done(t) /\ c.engine = LMDBENG /\ c.op = "get"
        /\ lastH[LMDBENG][c.key] = "dropped"
        /\ res[t].ok /\ res[t].val # None /\ Len(res[t].val.val.vec) > 0

----------------------------------------------------------------------------
(* C21 *)

\* The threads that have a transaction of the given kind open on store s.
TxnsOpen(s, kind) ==
    {t \in Threads : txn[t].kind = kind /\ call[t].engine = LMDBENG
                     /\ LmStore(t) = s}

\* C21: at every instant at most one thread, whichever handle it calls
\* through, has a read-write transaction open on the environment, and that
\* thread is the one the environment has as its writer; read-only
\* transactions are not limited by it.
C21_OneWriterAtATime ==
    \A s \in Stores :
        /\ Cardinality(TxnsOpen(s, "rw")) <= 1
        /\ \A t \in TxnsOpen(s, "rw") : lmWriter[s] = t
        /\ lmWriter[s] # NoThread => lmWriter[s] \in TxnsOpen(s, "rw")

\* A get_map has its read-only transaction open while the other thread,
\* calling through the clone, has the read-write transaction open with a
\* put not yet committed.
C21_Witness ==
    \E t \in Threads :
        /\ txn[t].kind = "ro" /\ pc[t] = "mapper"
        /\ txn[Other(t)].kind = "rw" /\ pc[Other(t)] = "commit"
        /\ call[t].key = call[Other(t)].key
        /\ txn[t].view # txn[Other(t)].view

----------------------------------------------------------------------------
(* C22 *)

\* The order of the statements of the LMDB methods.
LmRank(p) ==
    CASE p = "idle" -> 0
      [] p = "begin" -> 1
      [] p \in {"txn_get", "txn_del"} -> 2
      [] p = "mapper" -> 3
      [] p = "txn_put" -> 4
      [] p = "commit" -> 5
      [] OTHER -> 6

\* C22: in every step of a method of LMDB, for the thread t that runs it:
\* its transaction is open exactly between the begin and the return (so
\* while the callback runs, and never when the call has returned, with or
\* without an error, or when no call is made); only the begin statement
\* opens a transaction and it is reached once per call; the method only
\* moves forward through its statements, so no failed statement is run
\* again; and the environment has no writer when no call is running.
C22_OneTransactionPerCall ==
    [][\A t \in Threads :
          call[t].engine = LMDBENG /\ call[t].op \in ReadOps \cup WriteOps
          => /\ (txn[t] # NoTxn
                 <=> pc[t] \in {"txn_get", "txn_del", "mapper", "txn_put",
                               "commit"})'
             /\ (txn[t] = NoTxn /\ txn'[t] # NoTxn) => pc[t] = "begin"
             /\ (pc'[t] # pc[t] /\ pc'[t] # "idle")
                => LmRank(pc'[t]) > LmRank(pc[t])
             /\ ((\A u \in Threads : ~Busy(u))
                 => \A s \in Stores : lmWriter[s] = NoThread)']_vars

\* A fetch_and_replace_map has failed after its callback ran and has
\* returned with its transaction closed.
C22_Witness ==
    \E t \in Threads :
        /\ Done(t) /\ call[t].engine = LMDBENG
        /\ call[t].op = "fetch_and_replace_map"
        /\ Injected(res[t]) /\ applied[t] # <<>>
        /\ txn[t] = NoTxn /\ lmWriter[LmStore(t)] = NoThread

----------------------------------------------------------------------------
(* C24 *)

\* C24: when a call has returned, whether Ok or Err, every key other than
\* its own has the entry it had when the call was made, and after get or
\* get_map so has its own key.
C24_OnlyOwnKeyChanges ==
    \A t \in Threads :
        LET c == call[t] IN
        (Done(t) /\ c.op \in ReadOps \cup WriteOps)
        => /\ \A k \in Keys \ {c.key} : Seen(t)[k] = pre[t][k]
           /\ c.op \in ReadOps => Seen(t) = pre[t]

\* A remove has deleted the entry of the key that is a prefix of the other
\* key, and the other key still has its entry.
C24_Witness ==
    \E t \in Threads :
        LET c == call[t] IN
        /\ Done(t) /\ c.op = "remove" /\ res[t].ok
        /\ pre[t][c.key] # None /\ Seen(t)[c.key] = None
        /\ \E k \in Keys \ {c.key} :
             /\ Len(k) > Len(c.key)
             /\ pre[t][k] # None /\ Seen(t)[k] = pre[t][k]

----------------------------------------------------------------------------
(* C25 *)

\* C25: remove on LMDB returns Err only when the environment failed one of
\* its lmdb calls; without such a failure it returns Ok(()), whether the
\* key had an entry or not.
C25_RemoveErrIsRealFailure ==
    \A t \in Threads :
        (Done(t) /\ call[t].engine = LMDBENG /\ call[t].op = "remove")
        => (res[t].ok \/ Injected(res[t]))

----------------------------------------------------------------------------
(* C26 *)

\* C26: every call on a BTreeMapDB that has returned has returned Ok.
C26_BTreeMapDBNeverFails ==
    \A t \in Threads : (Done(t) /\ call[t].engine = BTREEMAP) => res[t].ok

\* Each method of BTreeMapDB at its least favourable: a read or a remove of
\* a key without entry has returned.
C26_Witness ==
    \E t \in Threads :
        /\ Done(t) /\ call[t].engine = BTREEMAP
        /\ call[t].op \in {"get_map", "remove"}
        /\ pre[t][call[t].key] = None
        /\ res[t].ok

----------------------------------------------------------------------------
(* C27 *)

\* The open() call a handle comes from: db_clone is a clone of db.
Origin(h) == IF h = "db2" THEN "second open" ELSE "first open"

\* C27: no step of a call made through a handle changes the contents seen
\* through a handle that comes from the other open() call, while handles of
\* the same open() call (a handle and its clone) always see the same
\* contents; and a returned get shows the contents of its own handle.
C27_SeparateOpensAreIndependent ==
    [][/\ \A t \in Threads, g \in Handles :
            (Busy(t) /\ btHandle[g] # NoStore
                     /\ Origin(g) # Origin(call[t].h))
            => btMap'[btHandle'[g]] = btMap[btHandle[g]]
       /\ \A g, h \in Handles :
            (btHandle[g] # NoStore /\ btHandle[h] # NoStore
                                   /\ Origin(g) = Origin(h))
            => btHandle[g] = btHandle[h]
       /\ \A t \in Threads :
            (Done(t) /\ call[t].op = "get")'
            => (res[t] = Ok(Expected(call[t], Seen(t)[call[t].key])))'
      ]_vars

\* get through the handle of the second open() has returned None for a key
\* that has an entry in the store of the first handle and its clone.
C27_Witness ==
    \E t \in Threads :
        LET c == call[t] IN
        /\ Done(t) /\ c.op = "get" /\ c.h = "db2" /\ res[t] = Ok(None)
        /\ btHandle["db_clone"] # NoStore
        /\ Contents(BTREEMAP, "db")[c.key] # None
        /\ Contents(BTREEMAP, "db_clone")[c.key] # None

----------------------------------------------------------------------------
(* C23 *)

\* C23: every call on a BTreeMapDB that waits for the lock eventually holds
\* it, and every call that holds it eventually returns with the lock
\* released, whatever calls the other thread keeps making through the clone.
C23_EveryCallCompletes ==
    \A t \in Threads :
        /\ (pc[t] = "lock") ~> (pc[t] = "body" /\ btLock[BtStore(t)] = t)
        /\ (pc[t] \in {"lock", "body", "mapper"})
           ~> (Done(t) /\ btLock[BtStore(t)] # t)

\* A call waits for the lock while the other thread, which made its call
\* earlier, holds it.
C23_Witness ==
    \E t \in Threads :
        /\ conc
        /\ pc[t] = "lock" /\ call[t].op = "fetch_and_replace_map"
        /\ btLock[BtStore(t)] = Other(t)
        /\ pc[Other(t)] = "body"

====
